---- MODULE Spec2Model ----
(***************************************************************************)
(* Model of the conversational-agent orchestration engine:                 *)
(*   AgentOrchestrator  (services/agentOrchestrator, src/unnamed/part_008)  *)
(*   ToolRegistry       (services/toolRegistry,      src/unnamed/part_010)  *)
(*   ConversationsRepo  (db/conversationsRepo,       src/unnamed/part_006)  *)
(*   PromptBuilder      (services/promptBuilder,     src/unnamed/part_011)  *)
(*                                                                         *)
(* A turn (processMessage) is cut into steps at its awaits; the outcome of *)
(* every collaborator (configuration store, conversation store, provider,  *)
(* product/order stores, HTTP transport) is chosen by the environment.     *)
(***************************************************************************)
EXTENDS Integers, Sequences, FiniteSets, TLC

VARIABLES
  pc,            \* position of the running processMessage call
  turn,          \* number of processMessage calls started so far
  cfg,           \* <<>> or <<agentConfig>> loaded for the turn
  hist,          \* lastMessages read for the turn
  histReads,     \* getLastMessages calls made in the turn
  llm,           \* <<>> or <<llmResponse>> of the first provider call
  parsed,        \* <<>> or <<parsedResponse>> of the inline path
  tcIdx,         \* index of the next tool call of llmResponse.toolCalls
  toolResults,   \* toolResults collected by the tool-call loop
  toolsUsed,     \* toolsUsed of processMessage
  executed,      \* executeTool invocations of the turn, in order
  execArgs,      \* the arguments handed to each of them, in the same order
  inlineRes,     \* <<>> or <<toolResult>> of the inline action
  provCalls,     \* provider calls of the turn, in order
  final,         \* <<>> or <<finalResponse>>
  outcome,       \* "none" | "returned" | "raised"
  raisedBy,      \* "none" | "config" | "history" | "provider"
  appended,      \* roles appended to the store in the turn, in order
  msgs,          \* the conversations collection, in insertion order
  content,       \* input of the parseLLMResponse harness
  presult,       \* <<>> or <<result>> of the parseLLMResponse harness
  rcfg,          \* <<>> or <<agentConfig>> handed to the tool registry
  rcall,         \* <<>> or <<[name, arguments]>> handed to executeTool
  rdefs,         \* <<>> or <<definitions>> returned by getToolDefinitions
  rres,          \* <<>> or <<toolResult>> returned by executeTool
  orders,        \* the orders collection of one tenant and user, in insertion order
  cproc,         \* the add_to_cart calls in flight: position and locals of each
  sdocs,         \* one conversation's documents [id, createdAt], in append order
  sclock,        \* the clock new Date() reads
  sread,         \* <<>> or <<[limit, result]>> of the last getLastMessages
  qin,           \* <<>> or <<[tool, args]>> handed to executeCustomTool
  qreq,          \* <<>> or <<request>> executeCustomTool hands to fetch
  qout,          \* <<>> or <<[authorization, status, outcome]>> of fetch
  xhist,         \* <<>> or <<history>> handed to extractContext
  xctx,          \* <<>> or <<context>> returned by extractContext
  tproc,         \* two turns of one conversation: position and locals of each
  tmsgs,         \* the messages of that conversation, in insertion order
  lclients,      \* the client caches of LLMRouter: vendor -> credential -> client
  lmade,         \* the clients constructed so far, in order
  luse,          \* <<>> or <<[vendor, key, client]>> of the last generate call
  uplan,         \* <<>> or <<plan>> of one (tenant, agent)
  unow,          \* the clock the usage checks read
  ureq,          \* the chat requests in flight: position of each
  udone          \* number of turns that succeeded in the billing period

vars == <<pc, turn, cfg, hist, histReads, llm, parsed, tcIdx, toolResults,
          toolsUsed, executed, execArgs, inlineRes, provCalls, final, outcome,
          raisedBy, appended, msgs, content, presult, rcfg, rcall, rdefs,
          rres, orders, cproc, sdocs, sclock, sread, qin, qreq, qout, xhist,
          xctx, tproc, tmsgs, lclients, lmade, luse, uplan, unow, ureq, udone>>

(***************************************************************************)
(* Bounds                                                                  *)
(***************************************************************************)
MaxTurns == 2
MaxContentLen == 3
MaxCustom == 2
MaxCalls == 2
MaxDocs == 3
MaxPath == 2
MaxHist == 3
MaxProducts == 6
MaxGenerate == 4

(***************************************************************************)
(* Program constants                                                       *)
(***************************************************************************)
HistoryLimit == 4
AudioLimit == 200
SummaryCap == 5

Null == "null"
NoAction == [type |-> Null, payload |-> {}]

(***************************************************************************)
(* Model reply text.  A text is a sequence of lexical tokens:              *)
(*   "{" "}"   braces                                                      *)
(*   "t"       free text without braces (a long sentence)                  *)
(*   "M" "Me"  a "message" member (non-empty / empty string)               *)
(*   "D"       an "audio_description" member                               *)
(*   "A.."     an "action" member, see ActionOfToken                       *)
(*   "X"       a member with an unexpected key                             *)
(***************************************************************************)
ActionTokens == {"An", "Ap", "As", "Ac", "Ag", "Ai", "Ah", "Au", "Al", "Ad"}
MemberTokens == {"M", "Me", "D", "X"} \cup ActionTokens
Tokens == {"{", "}", "t"} \cup MemberTokens

ActionOfToken(tok) ==
  CASE tok = "An" -> [type |-> Null, payload |-> {}]
    [] tok = "Ap" -> [type |-> Null, payload |-> {"x"}]
    [] tok = "As" -> [type |-> "search_product", payload |-> {"query"}]
    [] tok = "Ac" -> [type |-> "add_to_cart", payload |-> {}]
    [] tok = "Ag" -> [type |-> "get_order", payload |-> {}]
    [] tok = "Ai" -> [type |-> "get_order", payload |-> {"email"}]
    [] tok = "Ah" -> [type |-> "show_product", payload |-> {"productId"}]
    [] tok = "Au" -> [type |-> "open_ticket", payload |-> {"x"}]
    [] tok = "Al" -> [type |-> "lookup", payload |-> {"query"}]
    [] tok = "Ad" -> [type |-> "legacy", payload |-> {"x"}]

\* characters a token stands for
TokenChars(tok) == IF tok = "t" THEN 120 ELSE IF tok \in {"{", "}"} THEN 1 ELSE 20

RECURSIVE Chars(_)
Chars(text) == IF text = <<>> THEN 0 ELSE TokenChars(Head(text)) + Chars(Tail(text))

Positions(text, tok) == {i \in 1..Len(text) : text[i] = tok}
Max(S) == CHOOSE x \in S : \A y \in S : y <= x
Min(S) == CHOOSE x \in S : \A y \in S : x <= y

\* content.match(/\{[\s\S]*\}/): from the first "{" to the last "}" after it
JsonMatch(text) ==
  LET opens == Positions(text, "{")
      closes == Positions(text, "}")
  IN IF opens = {} \/ {j \in closes : j > Min(opens)} = {}
     THEN <<>>
     ELSE <<SubSeq(text, Min(opens), Max(closes))>>

\* JSON.parse of a matched blob: an object iff only members lie between the braces
JsonValid(blob) ==
  /\ Len(blob) >= 2
  /\ blob[1] = "{" /\ blob[Len(blob)] = "}"
  /\ \A i \in 2..(Len(blob) - 1) : blob[i] \in MemberTokens

\* value of a member of the parsed object; a repeated key keeps its last value
LastOf(blob, toks) ==
  LET ps == {i \in 1..Len(blob) : blob[i] \in toks}
  IN IF ps = {} THEN <<>> ELSE <<blob[Max(ps)]>>

RawMessage(text) == [kind |-> "raw", text |-> text]
FieldMessage == [kind |-> "field", text |-> <<"m">>]
TextOf(kind) == [kind |-> kind, text |-> <<>>]

MessageChars(m) == IF m.kind = "raw" THEN Chars(m.text) ELSE 20

\* generateAudioDescription(message, action?)
generateAudioDescription(message, actionType) ==
  [of |-> message,
   truncated |-> MessageChars(message) > AudioLimit,
   suffix |-> actionType]

GivenAudio == [of |-> TextOf("given"), truncated |-> FALSE, suffix |-> Null]

Fallback(text) ==
  [raised |-> FALSE,
   message |-> RawMessage(text),
   audio_description |-> generateAudioDescription(RawMessage(text), Null),
   action |-> NoAction]


\* a parseLLMResponse whose catch block lets the SyntaxError escape
ParseRethrow(text) ==
  [raised |-> TRUE,
   message |-> RawMessage(text),
   audio_description |-> generateAudioDescription(RawMessage(text), Null),
   action |-> NoAction]

\* the catch block of parseLLMResponse
ParseCatch(text) == Fallback(text)

\* parseLLMResponse(content, agentConfig)
parseLLMResponse(text) ==
  LET m == JsonMatch(text)
  IN IF m = <<>> THEN Fallback(text)
     ELSE IF ~JsonValid(m[1]) THEN ParseCatch(text)
     ELSE LET blob == m[1]
              msgTok == LastOf(blob, {"M", "Me"})
              audTok == LastOf(blob, {"D"})
              actTok == LastOf(blob, ActionTokens)
              message == IF msgTok = <<"M">> THEN FieldMessage ELSE RawMessage(text)
          IN [raised |-> FALSE,
              message |-> message,
              audio_description |->
                 IF audTok # <<>> THEN GivenAudio
                 ELSE generateAudioDescription(message, Null),
              action |-> IF actTok # <<>> THEN ActionOfToken(actTok[1]) ELSE NoAction]

RECURSIVE SeqsUpTo(_, _)
SeqsUpTo(S, n) ==
  IF n = 0 THEN {<<>>}
  ELSE LET shorter == SeqsUpTo(S, n - 1)
       IN shorter \cup {Append(s, x) : s \in {q \in shorter : Len(q) = n - 1}, x \in S}

AllContents == SeqsUpTo(Tokens, MaxContentLen)


(***************************************************************************)
(* Agent configurations                                                    *)
(***************************************************************************)
CoreTools == {"search_product", "add_to_cart", "get_order", "show_product",
              "rag_query", "external_api"}

\* default mode, every core tool on, one enabled custom tool declared
CfgDefault ==
  [mode |-> "default", searchProduct |-> TRUE, addToCart |-> TRUE,
   getOrder |-> TRUE, rag |-> FALSE,
   custom |-> <<[name |-> "lookup", enabled |-> TRUE, baseUrl |-> TRUE]>>]

\* hybrid mode, search off, one enabled and one disabled custom tool
CfgHybrid ==
  [mode |-> "hybrid", searchProduct |-> FALSE, addToCart |-> TRUE,
   getOrder |-> TRUE, rag |-> TRUE,
   custom |-> <<[name |-> "lookup", enabled |-> TRUE, baseUrl |-> TRUE],
                [name |-> "legacy", enabled |-> FALSE, baseUrl |-> TRUE]>>]

\* custom mode, a custom tool whose baseUrl is missing
CfgCustom ==
  [mode |-> "custom", searchProduct |-> TRUE, addToCart |-> FALSE,
   getOrder |-> FALSE, rag |-> FALSE,
   custom |-> <<[name |-> "lookup", enabled |-> TRUE, baseUrl |-> FALSE]>>]

TurnConfigs == {CfgDefault, CfgHybrid, CfgCustom}

\* the configurations handed to the registry: every mode, flag and knowledge
\* source, and every list of at most MaxCustom custom tools; a custom tool
\* may carry the name of a core tool or of another custom tool
Modes == {"unset", "default", "custom", "hybrid"}
CustomNames == {"lookup", "get_order"}
CustomDecls == [name : CustomNames, enabled : BOOLEAN, baseUrl : BOOLEAN]
CustomLists == SeqsUpTo(CustomDecls, MaxCustom)

AllConfigs ==
  [mode : Modes, searchProduct : BOOLEAN, addToCart : BOOLEAN,
   getOrder : BOOLEAN, rag : BOOLEAN, custom : CustomLists]

\* executeTool reads the mode nowhere and no flag but searchProduct and rag
ExecConfigs ==
  [mode : {"default", "custom", "hybrid"}, searchProduct : BOOLEAN,
   addToCart : {TRUE}, getOrder : {TRUE}, rag : BOOLEAN, custom : CustomLists]

\* the custom loop of getToolDefinitions (lines 207-227)
RECURSIVE SelectNames(_)
SelectNames(tools) ==
  IF tools = <<>> THEN <<>>
  ELSE LET t == Head(tools)
           rest == SelectNames(Tail(tools))
       IN IF t.baseUrl /\ t.enabled
          THEN <<[name |-> t.name, origin |-> "custom"]>> \o rest
          ELSE rest

CoreDef(name) == [name |-> name, origin |-> "core"]

\* core definitions pushed on the capability flag alone
CoreDefinitionsAnyMode(c) ==
  (IF c.searchProduct THEN <<CoreDef("search_product")>> ELSE <<>>)
  \o (IF c.addToCart THEN <<CoreDef("add_to_cart")>> ELSE <<>>)
  \o (IF c.getOrder THEN <<CoreDef("get_order")>> ELSE <<>>)
  \o (IF c.searchProduct THEN <<CoreDef("show_product")>> ELSE <<>>)
  \o (IF c.rag THEN <<CoreDef("rag_query")>> ELSE <<>>)

\* getToolDefinitions, the core block (lines 85-203); an unset mode is 'default'
CoreDefinitions(c) ==
  IF c.mode \in {"unset", "default", "hybrid"}
  THEN (IF c.searchProduct THEN <<CoreDef("search_product")>> ELSE <<>>)
       \o (IF c.addToCart THEN <<CoreDef("add_to_cart")>> ELSE <<>>)
       \o (IF c.getOrder THEN <<CoreDef("get_order")>> ELSE <<>>)
       \o (IF c.searchProduct THEN <<CoreDef("show_product")>> ELSE <<>>)
       \o (IF c.rag THEN <<CoreDef("rag_query")>> ELSE <<>>)
  ELSE <<>>

\* custom definitions pushed whatever the mode
CustomDefinitionsAnyMode(c) == SelectNames(c.custom)

\* getToolDefinitions, the custom block (lines 205-228)
CustomDefinitions(c) ==
  IF c.mode \in {"custom", "hybrid"} THEN SelectNames(c.custom) ELSE <<>>

\* ToolRegistry.getToolDefinitions: the advertised definitions, in order
getToolDefinitions(c) == CoreDefinitions(c) \o CustomDefinitions(c)


\* a lookup that forgets the enabled flag
findCustomToolAnyState(name, c) ==
  LET ps == {i \in 1..Len(c.custom) : c.custom[i].name = name}
  IN IF ps = {} THEN <<>> ELSE <<c.custom[CHOOSE i \in ps : \A j \in ps : i <= j]>>

\* ToolRegistry.findCustomTool: the first tool of that name, if it is enabled
findCustomTool(name, c) ==
  LET ps == {i \in 1..Len(c.custom) : c.custom[i].name = name}
  IN IF ps = {} THEN <<>>
     ELSE IF c.custom[Min(ps)].enabled THEN <<c.custom[Min(ps)]>> ELSE <<>>

(***************************************************************************)
(* Tool results.  via: which executor produced the result ("thrown": the   *)
(* executor raised instead of returning); io: the store, index and HTTP    *)
(* calls the executor made, in order                                       *)
(***************************************************************************)
Failed(err, via, io) ==
  [success |-> FALSE, needsUserInput |-> FALSE, data |-> "none", error |-> err,
   question |-> "none", via |-> via, io |-> io]

Succeeded(data, via, io) ==
  [success |-> TRUE, needsUserInput |-> FALSE, data |-> data, error |-> "none",
   question |-> "none", via |-> via, io |-> io]

AskUser(question, err, io) ==
  [success |-> FALSE, needsUserInput |-> TRUE, data |-> "none", error |-> err,
   question |-> question, via |-> "core", io |-> io]

Thrown(err, io) == Failed(err, "thrown", io)

\* ToolRegistry.executeCustomTool
executeCustomTool(tool, args) ==
  IF ~tool.baseUrl THEN {Failed("missing baseUrl", "custom", <<>>)}
  ELSE {Succeeded("http", "custom", <<"http.fetch">>),
        Succeeded("empty", "custom", <<"http.fetch">>),
        Failed("http status", "custom", <<"http.fetch">>),
        Failed("http transport", "custom", <<"http.fetch">>)}

\* ToolRegistry.searchProduct; "query#" is a query that is not a string
searchProduct(args, c) ==
  IF "query#" \in args THEN {Thrown("query.trim is not a function", <<>>)}
  ELSE IF ~c.searchProduct THEN {Failed("not enabled", "core", <<>>)}
  ELSE {Succeeded("products", "core", <<"products.search">>),
        Succeeded("noproducts", "core", <<"products.search">>),
        Failed("store error", "core", <<"products.search">>)}

\* ToolRegistry.addToCart, by outcome (CartStep has its steps)
addToCart(args, c) ==
  IF "productId" \notin args THEN {Failed("productId required", "core", <<>>)}
  ELSE {Succeeded("cart", "core",
                  <<"products.getById", "orders.getActiveCart", "orders.updateProducts">>),
        Succeeded("cart", "core",
                  <<"products.getById", "orders.getActiveCart", "orders.create",
                    "orders.updateProducts">>),
        Failed("Product not found", "core", <<"products.getById">>),
        Failed("Failed to update cart", "core",
               <<"products.getById", "orders.getActiveCart", "orders.updateProducts">>),
        Failed("store error", "core", <<"products.getById">>)}

OrderKeys == {"orderNumber", "orderId", "email", "phone"}

\* a lookup that prefers the e-mail address
OrderLookupEmailFirst(args) ==
  IF "email" \in args THEN <<"orders.getByUser", "email">>
  ELSE IF "orderNumber" \in args THEN <<"orders.getById", "orderNumber">>
  ELSE IF "orderId" \in args THEN <<"orders.getById", "orderId">>
  ELSE IF "phone" \in args THEN <<"orders.getByUser", "phone">>
  ELSE <<>>

\* the lookup getOrder makes for an argument set (lines 576-586)
OrderLookup(args) ==
  IF "orderNumber" \in args THEN <<"orders.getById", "orderNumber">>
  ELSE IF "orderId" \in args THEN <<"orders.getById", "orderId">>
  ELSE IF "email" \in args THEN <<"orders.getByUser", "email">>
  ELSE IF "phone" \in args THEN <<"orders.getByUser", "phone">>
  ELSE <<>>

\* ToolRegistry.getOrder
getOrder(args, c) ==
  LET lookup == OrderLookup(args)
  IN IF lookup = <<>>
     THEN {AskUser("missing", "Missing required information", <<>>)}
     ELSE {Succeeded("order", "core", lookup),
           AskUser("notfound", "Order not found", lookup),
           Failed("store error", "core", lookup)}

\* ToolRegistry.showProduct
showProduct(args, c) ==
  IF "productId" \notin args THEN {Failed("productId required", "core", <<>>)}
  ELSE {Succeeded("product", "core", <<"products.getById">>),
        Failed("Product not found", "core", <<"products.getById">>),
        Failed("store error", "core", <<"products.getById">>)}

\* ToolRegistry.ragQuery
ragQuery(args, c) ==
  IF "query" \notin args THEN {Failed("query required", "core", <<>>)}
  ELSE IF ~c.rag THEN {Failed("RAG not configured", "core", <<>>)}
  ELSE {Succeeded("rag", "core", <<"rag.query">>),
        Failed("rag error", "core", <<"rag.query">>)}

\* ToolRegistry.externalApi
externalApi(args, c) == {Failed("not implemented", "core", <<>>)}

\* the executor registered under a core name (registerCoreTools)
CoreExecutor(name, args, c) ==
  CASE name = "search_product" -> searchProduct(args, c)
    [] name = "add_to_cart" -> addToCart(args, c)
    [] name = "get_order" -> getOrder(args, c)
    [] name = "show_product" -> showProduct(args, c)
    [] name = "rag_query" -> ragQuery(args, c)
    [] name = "external_api" -> externalApi(args, c)

\* the catch of executeTool (lines 269-276)
ExecutorCatch(r) == IF r.via = "thrown" THEN Failed(r.error, "core", r.io) ELSE r

\* an executeTool that awaits the executor outside any try
executeToolNoCatch(name, args, c) ==
  LET ct == findCustomTool(name, c)
  IN IF ct # <<>> THEN executeCustomTool(ct[1], args)
     ELSE IF name \notin CoreTools THEN {Failed("Tool not found", "none", <<>>)}
     ELSE CoreExecutor(name, args, c)

\* ToolRegistry.executeTool: the results the collaborators can make it return
executeTool(name, args, c) ==
  LET ct == findCustomTool(name, c)
  IN IF ct # <<>> THEN executeCustomTool(ct[1], args)
     ELSE IF name \notin CoreTools THEN {Failed("Tool not found", "none", <<>>)}
     ELSE {ExecutorCatch(r) : r \in CoreExecutor(name, args, c)}


(***************************************************************************)
(* What the provider can reply                                             *)
(***************************************************************************)
TurnContents ==
  { <<"t">>, <<"t", "t">>, <<"{", "t", "}">>, <<"{", "X", "}">>,
    <<"{", "M", "}">>, <<"{", "M", "Ap", "}">>, <<"{", "M", "As", "}">>,
    <<"{", "Ac", "}">>, <<"{", "M", "Ag", "}">>, <<"{", "Ai", "}">>,
    <<"{", "Ah", "}">>,
    <<"{", "M", "Au", "}">>, <<"{", "M", "Al", "}">>, <<"{", "M", "Ad", "}">> }

NarrationContents ==
  { <<"t">>, <<"{", "M", "An", "}">>, <<"{", "M", "Ap", "}">>, <<"{", "Al", "}">> }

Call(name, args) == [name |-> name, arguments |-> args]

TurnToolCalls ==
  { <<Call("search_product", {"query"})>>,
    <<Call("get_order", {})>>,
    <<Call("get_order", {"email"})>>,
    <<Call("lookup", {"query"})>>,
    <<Call("add_to_cart", {}), Call("search_product", {"query"})>>,
    <<Call("no_such_tool", {}), Call("add_to_cart", {"productId"})>>,
    <<Call("get_order", {"email"}), Call("lookup", {}), Call("show_product", {"productId"})>> }

\* the calls handed to executeTool: every core name, an enabled and a
\* differently-cased custom name, an unknown name, every identifier set
RegistryCalls ==
  {Call("get_order", ids) : ids \in SUBSET OrderKeys}
  \cup {Call("search_product", a) : a \in {{}, {"query"}, {"query#"}}}
  \cup {Call(n, a) : n \in {"add_to_cart", "show_product"}, a \in {{}, {"productId"}}}
  \cup {Call(n, a) : n \in {"rag_query", "lookup"}, a \in {{}, {"query"}}}
  \cup {Call(n, {}) : n \in {"external_api", "Lookup", "no_such_tool"}}

(***************************************************************************)
(* PromptBuilder.extractContext, the part the orchestrator reads           *)
(***************************************************************************)
RECURSIVE lastSearchResults(_)
lastSearchResults(history) ==
  IF history = <<>> THEN "none"
  ELSE LET m == history[Len(history)]
       IN IF m.action.type = "search_product" /\ "products" \in m.action.payload
          THEN "some"
          ELSE IF m.action.type = "search_product" /\ "products0" \in m.action.payload
          THEN "empty"
          ELSE lastSearchResults(SubSeq(history, 1, Len(history) - 1))

(***************************************************************************)
(* ConversationsRepo                                                       *)
(***************************************************************************)
\* getLastMessages(tenantId, userId, conversationId, limit), for messages
\* whose createdAt are pairwise distinct (getLastMessagesByCreatedAt has the
\* general case)
getLastMessages(store, limit) ==
  IF Len(store) <= limit THEN store
  ELSE SubSeq(store, Len(store) - limit + 1, Len(store))

\* saveMessage: the stored document
StoredMessage(t, role, action) == [turn |-> t, role |-> role, action |-> action]

(***************************************************************************)
(* Response shaping                                                        *)
(***************************************************************************)
Response(message, audio, action) ==
  [message |-> message, audio_description |-> audio, action |-> action]

ResponseOf(p) == Response(p.message, p.audio_description, p.action)

PayloadOf(data) == IF data \in {"none", "empty"} THEN {} ELSE {data}

SearchPayload(data) ==
  IF data = "products" THEN {"query", "products"} ELSE {"query", "products0"}

\* executeActionFromResponse, lines 325-332: the tool asks the user
AskResponse(p, r) ==
  Response(IF r.question # "none" THEN [kind |-> "question", text |-> <<r.question>>]
           ELSE p.message,
           generateAudioDescription(
             IF r.question # "none" THEN [kind |-> "question", text |-> <<r.question>>]
             ELSE TextOf("need-more"), Null),
           NoAction)

\* executeActionFromResponse, lines 432-444: the tool failed
ToolFailedResponse(r) ==
  Response([kind |-> "error", text |-> <<r.error>>],
           generateAudioDescription(TextOf("error-executing"), Null),
           NoAction)

\* executeActionFromResponse, lines 445-452: the catch block
ActionCatchResponse(p) ==
  Response(p.message, generateAudioDescription(TextOf("error-processing"), Null),
           NoAction)

\* executeActionFromResponse, lines 334-431: a core action succeeded with data
CoreActionResponse(p, type, r) ==
  LET message ==
        CASE type = "search_product" ->
               IF r.data = "products" THEN TextOf("product-list") ELSE TextOf("no-products")
          [] type = "add_to_cart" -> TextOf("cart-message")
          [] type = "get_order" -> TextOf("order-summary")
          [] OTHER -> p.message
      action ==
        IF type = "search_product" THEN [type |-> type, payload |-> SearchPayload(r.data)]
        ELSE [type |-> type, payload |-> PayloadOf(r.data)]
  IN Response(message, generateAudioDescription(message, action.type), action)

\* generateResponseFromCustomTool + lines 416-423
CustomToolResponse(type, r, text) ==
  LET p == parseLLMResponse(text)
  IN Response(p.message, p.audio_description,
              [type |-> type, payload |-> PayloadOf(r.data)])

\* generateResponseFromToolResults, lines 562-600: the last successful tool decides
RECURSIVE ActionFromResults(_, _)
ActionFromResults(results, action) ==
  IF results = <<>> THEN action
  ELSE LET tr == Head(results)
           next ==
             IF ~tr.result.success THEN action
             ELSE IF tr.tool = "search_product"
             THEN [type |-> tr.tool, payload |-> SearchPayload(tr.result.data)]
             ELSE [type |-> tr.tool, payload |-> PayloadOf(tr.result.data)]
       IN ActionFromResults(Tail(results), next)

\* generateResponseFromToolResults, lines 559-606
NarratedResponse(results, text) ==
  LET p == parseLLMResponse(text)
  IN Response(p.message, p.audio_description, ActionFromResults(results, p.action))

\* generateResponseFromToolResults, lines 519-529: one block per tool result
ResultBlocks(results) ==
  [i \in 1..Len(results) |->
     [tool |-> results[i].tool,
      block |-> IF results[i].result.success THEN "ok" ELSE "error"]]


(***************************************************************************)
(* processMessage, step by step                                            *)
(***************************************************************************)
ProviderCall(stage, withTools, blocks, ok) ==
  [stage |-> stage, tools |-> withTools, blocks |-> blocks, ok |-> ok,
   afterAsk |-> \/ \E i \in 1..Len(toolResults) : toolResults[i].result.needsUserInput
                \/ (inlineRes # <<>> /\ inlineRes[1].needsUserInput)]

parseVars == <<content, presult>>
regVars == <<rcfg, rcall, rdefs, rres>>
cartVars == <<orders, cproc>>
storeVars == <<sdocs, sclock, sread>>
reqVars == <<qin, qreq, qout>>
ctxVars == <<xhist, xctx>>
raceVars == <<tproc, tmsgs>>
clientVars == <<lclients, lmade, luse>>
usageVars == <<uplan, unow, ureq, udone>>
extVars == <<reqVars, ctxVars, raceVars, clientVars, usageVars>>
harness == <<parseVars, regVars, cartVars, storeVars, extVars>>
turnLog == <<toolResults, toolsUsed, executed, execArgs, inlineRes, provCalls>>

\* the catch of processMessage (lines 220-223): log and rethrow
Raise(cause) ==
  /\ pc' = "done"
  /\ outcome' = "raised"
  /\ raisedBy' = cause

\* line 209: toolsUsed.length > 0 ? toolsUsed : undefined
metaToolsUsed(used) == IF Len(used) > 0 THEN <<used>> ELSE <<>>

\* lines 202-211 and the call of saveConversation
Shape(response) ==
  /\ final' = <<response>>
  /\ pc' = "saveUser"

\* lines 216-219
Return ==
  /\ pc' = "done"
  /\ outcome' = "returned"

\* a caller invokes processMessage(context, userMessage)
Invoke ==
  /\ pc \in {"idle", "done"}
  /\ turn < MaxTurns
  /\ turn' = turn + 1
  /\ pc' = "load"
  /\ cfg' = <<>> /\ hist' = <<>> /\ histReads' = 0 /\ llm' = <<>>
  /\ parsed' = <<>> /\ tcIdx' = 1 /\ toolResults' = <<>> /\ toolsUsed' = <<>>
  /\ executed' = <<>> /\ execArgs' = <<>> /\ inlineRes' = <<>>
  /\ provCalls' = <<>> /\ final' = <<>>
  /\ outcome' = "none" /\ raisedBy' = "none" /\ appended' = <<>>
  /\ UNCHANGED <<msgs, harness>>


\* a load step without the null check of lines 79-81
LoadConfigUnchecked ==
  /\ pc = "load"
  /\ \/ \E c \in TurnConfigs : cfg' = <<c>>
     \/ UNCHANGED cfg
  /\ pc' = "history"
  /\ UNCHANGED <<turn, hist, histReads, llm, parsed, tcIdx, turnLog, final,
                 outcome, raisedBy, appended, msgs, harness>>

\* lines 74-81: the configuration store answers
LoadConfig ==
  /\ pc = "load"
  /\ \/ \E c \in TurnConfigs :
          /\ cfg' = <<c>>
          /\ pc' = "history"
          /\ UNCHANGED <<outcome, raisedBy>>
     \/ /\ Raise("config")
        /\ UNCHANGED cfg
  /\ UNCHANGED <<turn, hist, histReads, llm, parsed, tcIdx, turnLog, final,
                 appended, msgs, harness>>

\* lines 84-89: the conversation store answers or throws
LoadHistory ==
  /\ pc = "history"
  /\ histReads' = histReads + 1
  /\ \/ /\ hist' = getLastMessages(msgs, HistoryLimit)
        /\ pc' = "think"
        /\ UNCHANGED <<outcome, raisedBy>>
     \/ /\ Raise("history")
        /\ UNCHANGED hist
  /\ UNCHANGED <<turn, cfg, llm, parsed, tcIdx, turnLog, final, appended, msgs,
                 harness>>

\* lines 186-200: no tool call was requested
Dispatch(text) ==
  LET p == parseLLMResponse(text)
  IN /\ parsed' = <<p>>
     /\ IF p.action.type # Null
        THEN pc' = "action" /\ UNCHANGED final
        ELSE Shape(ResponseOf(p))

\* lines 112-116 and 139-200: the first provider call
Think ==
  /\ pc = "think"
  /\ LET withTools == Len(getToolDefinitions(cfg[1])) > 0
     IN \/ /\ provCalls' = Append(provCalls, ProviderCall("think", withTools, <<>>, FALSE))
           /\ Raise("provider")
           /\ UNCHANGED <<llm, parsed, final>>
        \/ \E text \in TurnContents :
             /\ provCalls' = Append(provCalls, ProviderCall("think", withTools, <<>>, TRUE))
             /\ llm' = <<[content |-> text, toolCalls |-> <<>>]>>
             /\ Dispatch(text)
             /\ UNCHANGED <<outcome, raisedBy>>
        \/ \E calls \in TurnToolCalls :
             /\ withTools
             /\ provCalls' = Append(provCalls, ProviderCall("think", withTools, <<>>, TRUE))
             /\ llm' = <<[content |-> <<>>, toolCalls |-> calls]>>
             /\ pc' = "tools"
             /\ UNCHANGED <<parsed, final, outcome, raisedBy>>
  /\ UNCHANGED <<turn, cfg, hist, histReads, tcIdx, toolResults, toolsUsed,
                 executed, execArgs, inlineRes, appended, msgs, harness>>


\* a tool-call loop that stops at the first failed tool
ExecToolCallStopOnFailure ==
  /\ pc = "tools"
  /\ LET calls == llm[1].toolCalls
         tc == calls[tcIdx]
     IN /\ \E r \in executeTool(tc.name, tc.arguments, cfg[1]) :
             /\ toolResults' = Append(toolResults, [tool |-> tc.name, result |-> r])
             /\ pc' = IF tcIdx = Len(calls) \/ ~r.success THEN "narrate" ELSE "tools"
        /\ executed' = Append(executed, tc.name)
        /\ execArgs' = Append(execArgs, tc.arguments)
        /\ toolsUsed' = Append(toolsUsed, tc.name)
        /\ tcIdx' = tcIdx + 1
  /\ UNCHANGED <<turn, cfg, hist, histReads, llm, parsed, inlineRes, provCalls,
                 final, outcome, raisedBy, appended, msgs, harness>>

\* lines 153-173: one iteration of the tool-call loop
ExecToolCall ==
  /\ pc = "tools"
  /\ LET calls == llm[1].toolCalls
         tc == calls[tcIdx]
     IN /\ \E r \in executeTool(tc.name, tc.arguments, cfg[1]) :
             toolResults' = Append(toolResults, [tool |-> tc.name, result |-> r])
        /\ executed' = Append(executed, tc.name)
        /\ execArgs' = Append(execArgs, tc.arguments)
        /\ toolsUsed' = Append(toolsUsed, tc.name)
        /\ tcIdx' = tcIdx + 1
        /\ pc' = IF tcIdx = Len(calls) THEN "narrate" ELSE "tools"
  /\ UNCHANGED <<turn, cfg, hist, histReads, llm, parsed, inlineRes, provCalls,
                 final, outcome, raisedBy, appended, msgs, harness>>

\* a narration whose reply is dispatched like a first reply
NarrateAndDispatch ==
  /\ pc = "narrate"
  /\ \/ /\ provCalls' = Append(provCalls,
                 ProviderCall("narrate", FALSE, ResultBlocks(toolResults), FALSE))
        /\ Raise("provider")
        /\ UNCHANGED <<parsed, final>>
     \/ \E text \in NarrationContents :
          /\ provCalls' = Append(provCalls,
                 ProviderCall("narrate", FALSE, ResultBlocks(toolResults), TRUE))
          /\ Dispatch(text)
          /\ UNCHANGED <<outcome, raisedBy>>
  /\ UNCHANGED <<turn, cfg, hist, histReads, llm, tcIdx, toolResults,
                 toolsUsed, executed, execArgs, inlineRes, appended, msgs, harness>>

\* lines 177-183, generateResponseFromToolResults: the second provider call
Narrate ==
  /\ pc = "narrate"
  /\ \/ /\ provCalls' = Append(provCalls,
                 ProviderCall("narrate", FALSE, ResultBlocks(toolResults), FALSE))
        /\ Raise("provider")
        /\ UNCHANGED final
     \/ \E text \in NarrationContents :
          /\ provCalls' = Append(provCalls,
                 ProviderCall("narrate", FALSE, ResultBlocks(toolResults), TRUE))
          /\ Shape(NarratedResponse(toolResults, text))
          /\ UNCHANGED <<outcome, raisedBy>>
  /\ UNCHANGED <<turn, cfg, hist, histReads, llm, parsed, tcIdx, toolResults,
                 toolsUsed, executed, execArgs, inlineRes, appended, msgs, harness>>


SwitchActions == {"search_product", "add_to_cart", "show_product", "get_order"}

\* lines 258-275: productId taken from the first product of lastSearchResults
FillProductId(type, payload, history) ==
  IF /\ type \in {"add_to_cart", "show_product"}
     /\ "productId" \notin payload
     /\ lastSearchResults(history) = "some"
  THEN payload \cup {"productId"}
  ELSE payload

\* lines 250-323: does the switch reach executeTool for this action type
ActionRunsTool(type, c) ==
  type \in SwitchActions \/ findCustomTool(type, c) # <<>>

\* lines 236-444, executeActionFromResponse up to its narration call
ExecAction ==
  /\ pc = "action"
  /\ LET p == parsed[1]
         type == p.action.type
         args == FillProductId(type, p.action.payload, hist)
     IN IF ~ActionRunsTool(type, cfg[1])
        THEN /\ Shape(ResponseOf(p))
             /\ UNCHANGED <<executed, execArgs, inlineRes>>
        ELSE \E r \in executeTool(type, args, cfg[1]) :
               /\ executed' = Append(executed, type)
               /\ execArgs' = Append(execArgs, args)
               /\ inlineRes' = <<r>>
               /\ IF r.needsUserInput THEN Shape(AskResponse(p, r))
                  ELSE IF ~r.success THEN Shape(ToolFailedResponse(r))
                  ELSE IF type \in SwitchActions /\ PayloadOf(r.data) # {}
                  THEN Shape(CoreActionResponse(p, type, r))
                  ELSE pc' = "actionNarrate" /\ UNCHANGED final
  /\ UNCHANGED <<turn, cfg, hist, histReads, llm, parsed, tcIdx, toolResults,
                 toolsUsed, provCalls, outcome, raisedBy, appended, msgs, harness>>

\* lines 405-424 and 445-452, generateResponseFromCustomTool: the provider call
\* made inside the try block of executeActionFromResponse
ActionNarrate ==
  /\ pc = "actionNarrate"
  /\ \/ /\ provCalls' = Append(provCalls, ProviderCall("actionNarrate", FALSE, <<>>, FALSE))
        /\ Shape(ActionCatchResponse(parsed[1]))
     \/ \E text \in NarrationContents :
          /\ provCalls' = Append(provCalls, ProviderCall("actionNarrate", FALSE, <<>>, TRUE))
          /\ Shape(CustomToolResponse(parsed[1].action.type, inlineRes[1], text))
  /\ UNCHANGED <<turn, cfg, hist, histReads, llm, parsed, tcIdx, toolResults,
                 toolsUsed, executed, execArgs, inlineRes, outcome, raisedBy, appended, msgs,
                 harness>>

\* the action field saveConversation stores with the assistant message
StoredAction(action) == IF action.type # Null THEN action ELSE NoAction

\* saveConversation, lines 835-843: the first saveMessage; a throw is swallowed
SaveUser ==
  /\ pc = "saveUser"
  /\ \/ /\ msgs' = Append(msgs, StoredMessage(turn, "user", NoAction))
        /\ appended' = Append(appended, "user")
        /\ pc' = "saveAssistant"
        /\ UNCHANGED outcome
     \/ /\ Return
        /\ UNCHANGED <<msgs, appended>>
  /\ UNCHANGED <<turn, cfg, hist, histReads, llm, parsed, tcIdx, turnLog, final,
                 raisedBy, harness>>


\* a second saveMessage whose failure is rethrown instead of swallowed
SaveAssistantRethrow ==
  /\ pc = "saveAssistant"
  /\ \/ /\ msgs' = Append(msgs, StoredMessage(turn, "assistant", StoredAction(final[1].action)))
        /\ appended' = Append(appended, "assistant")
        /\ pc' = "upsert"
        /\ UNCHANGED <<outcome, raisedBy>>
     \/ /\ Raise("persist")
        /\ UNCHANGED <<msgs, appended>>
  /\ UNCHANGED <<turn, cfg, hist, histReads, llm, parsed, tcIdx, turnLog, final,
                 harness>>

\* saveConversation, lines 846-864: the second saveMessage
SaveAssistant ==
  /\ pc = "saveAssistant"
  /\ \/ /\ msgs' = Append(msgs, StoredMessage(turn, "assistant", StoredAction(final[1].action)))
        /\ appended' = Append(appended, "assistant")
        /\ pc' = "upsert"
        /\ UNCHANGED outcome
     \/ /\ Return
        /\ UNCHANGED <<msgs, appended>>
  /\ UNCHANGED <<turn, cfg, hist, histReads, llm, parsed, tcIdx, turnLog, final,
                 raisedBy, harness>>

\* saveConversation, lines 867-875: upsertConversation, then processMessage returns
\* (the upsert resolves or throws; the catch swallows the throw, so both
\* outcomes continue at line 217)
Upsert ==
  /\ pc = "upsert"
  /\ Return
  /\ UNCHANGED <<turn, cfg, hist, histReads, llm, parsed, tcIdx, turnLog, final,
                 raisedBy, appended, msgs, harness>>

(***************************************************************************)
(* Harness that applies parseLLMResponse to every bounded text             *)
(***************************************************************************)
ParseText ==
  /\ pc = "parse"
  /\ presult' = <<parseLLMResponse(content)>>
  /\ pc' = "parsed"
  /\ UNCHANGED <<turn, cfg, hist, histReads, llm, parsed, tcIdx, turnLog, final,
                 outcome, raisedBy, appended, msgs, content, regVars, cartVars,
                 storeVars, extVars>>

Quiet ==
  /\ turn = 0 /\ cfg = <<>> /\ hist = <<>> /\ histReads = 0 /\ llm = <<>>
  /\ parsed = <<>> /\ tcIdx = 1 /\ toolResults = <<>> /\ toolsUsed = <<>>
  /\ executed = <<>> /\ execArgs = <<>> /\ inlineRes = <<>>
  /\ provCalls = <<>> /\ final = <<>>
  /\ outcome = "none" /\ raisedBy = "none" /\ appended = <<>> /\ msgs = <<>>

ParseQuiet == content = <<>> /\ presult = <<>>
RegQuiet == rcfg = <<>> /\ rcall = <<>> /\ rdefs = <<>> /\ rres = <<>>
CartQuiet == orders = <<>> /\ cproc = <<>>
StoreQuiet == sdocs = <<>> /\ sclock = 0 /\ sread = <<>>
ReqQuiet == qin = <<>> /\ qreq = <<>> /\ qout = <<>>
CtxQuiet == xhist = <<>> /\ xctx = <<>>
RaceQuiet == tproc = <<>> /\ tmsgs = <<>>
ClientQuiet == lclients = <<>> /\ lmade = <<>> /\ luse = <<>>
UsageQuiet == uplan = <<>> /\ unow = 0 /\ ureq = <<>> /\ udone = 0
ExtQuiet == ReqQuiet /\ CtxQuiet /\ RaceQuiet /\ ClientQuiet /\ UsageQuiet

Init ==
  /\ pc = "idle"
  /\ Quiet
  /\ ParseQuiet
  /\ RegQuiet
  /\ CartQuiet
  /\ StoreQuiet
  /\ ExtQuiet

Next ==
  \/ Invoke
  \/ LoadConfig
  \/ LoadHistory
  \/ Think
  \/ ExecToolCall
  \/ Narrate
  \/ ExecAction
  \/ ActionNarrate
  \/ SaveUser
  \/ SaveAssistant
  \/ Upsert

Spec == Init /\ [][Next]_vars

InitParse ==
  /\ pc = "parse"
  /\ Quiet
  /\ content \in AllContents /\ presult = <<>>
  /\ RegQuiet
  /\ CartQuiet
  /\ StoreQuiet
  /\ ExtQuiet

NextParse == ParseText

SpecParse == InitParse /\ [][NextParse]_vars

(***************************************************************************)
(* Harness that hands every bounded configuration to getToolDefinitions    *)
(***************************************************************************)
Advertise ==
  /\ pc = "advertise"
  /\ rdefs' = <<getToolDefinitions(rcfg[1])>>
  /\ pc' = "advertised"
  /\ UNCHANGED <<turn, cfg, hist, histReads, llm, parsed, tcIdx, turnLog, final,
                 outcome, raisedBy, appended, msgs, parseVars, rcfg, rcall, rres,
                 cartVars, storeVars, extVars>>

InitAdvertise ==
  /\ pc = "advertise"
  /\ Quiet
  /\ ParseQuiet
  /\ rcfg \in {<<c>> : c \in AllConfigs}
  /\ rcall = <<>> /\ rdefs = <<>> /\ rres = <<>>
  /\ CartQuiet
  /\ StoreQuiet
  /\ ExtQuiet

NextAdvertise == Advertise

SpecAdvertise == InitAdvertise /\ [][NextAdvertise]_vars

(***************************************************************************)
(* Harness that hands every bounded call to executeTool                    *)
(***************************************************************************)
Execute ==
  /\ pc = "execute"
  /\ \E r \in executeTool(rcall[1].name, rcall[1].arguments, rcfg[1]) :
       rres' = <<r>>
  /\ pc' = "executed"
  /\ UNCHANGED <<turn, cfg, hist, histReads, llm, parsed, tcIdx, turnLog, final,
                 outcome, raisedBy, appended, msgs, parseVars, rcfg, rcall, rdefs,
                 cartVars, storeVars, extVars>>

InitExecute ==
  /\ pc = "execute"
  /\ Quiet
  /\ ParseQuiet
  /\ rcfg \in {<<c>> : c \in ExecConfigs}
  /\ rcall \in {<<k>> : k \in RegistryCalls}
  /\ rdefs = <<>> /\ rres = <<>>
  /\ CartQuiet
  /\ StoreQuiet
  /\ ExtQuiet

NextExecute == Execute

SpecExecute == InitExecute /\ [][NextExecute]_vars


(***************************************************************************)
(* add_to_cart, step by step, with calls of one (tenant, user) overlapping *)
(***************************************************************************)
Callers == 1..MaxCalls
ProductIds == {"p1", "p2"}
Prices == {1, 2}
Quantities == {1, 2}

IdleCall ==
  [at |-> "idle", productId |-> "none", quantity |-> 0, price |-> 0,
   cart |-> <<>>, alone |-> TRUE, result |-> "none"]

Line(productId, qty, price) ==
  [productId |-> productId, qty |-> qty, valid_price |-> price]

\* products.reduce((sum, p) => sum + p.valid_price * p.qty, 0)
RECURSIVE LineTotal(_)
LineTotal(products) ==
  IF products = <<>> THEN 0
  ELSE LineTotal(Tail(products)) + Head(products).valid_price * Head(products).qty

\* a merge that pushes a line for every call
MergeAlwaysPush(products, productId, quantity, price) ==
  Append(products, Line(productId, quantity, price))

\* addToCart lines 504-528: add to the line of the product, or push a line
MergeLine(products, productId, quantity, price) ==
  LET ps == {i \in 1..Len(products) : products[i].productId = productId}
  IN IF ps # {}
     THEN [products EXCEPT ![Min(ps)] =
             Line(productId, products[Min(ps)].qty + quantity, price)]
     ELSE Append(products, Line(productId, quantity, price))

turnVars == <<pc, turn, cfg, hist, histReads, llm, parsed, tcIdx, turnLog, final,
              outcome, raisedBy, appended, msgs>>

PendingOrders == {i \in 1..Len(orders) : orders[i].status = "pending"}
Running(c) == cproc[c].at \notin {"idle", "done"}

\* executeTool('add_to_cart', {productId, quantity}, ctx) is called
CartInvoke(c) ==
  /\ cproc[c].at = "idle"
  /\ \E id \in ProductIds, q \in Quantities :
       cproc' = [cproc EXCEPT ![c] =
                   [@ EXCEPT !.at = "getProduct", !.productId = id, !.quantity = q,
                             !.alone = \A d \in Callers \ {c} : ~Running(d)]]
  /\ UNCHANGED <<orders, turnVars, parseVars, regVars, storeVars, extVars>>

\* lines 458-465: productsRepo.getById and getProductPrice
CartGetProduct(c) ==
  /\ cproc[c].at = "getProduct"
  /\ \/ \E pr \in Prices :
          cproc' = [cproc EXCEPT ![c] = [@ EXCEPT !.at = "getCart", !.price = pr]]
     \/ cproc' = [cproc EXCEPT ![c] =
                    [@ EXCEPT !.at = "done", !.result = "Product not found"]]
  /\ UNCHANGED <<orders, turnVars, parseVars, regVars, storeVars, extVars>>

\* line 469: ordersRepo.getActiveCart, a findOne over the pending orders
CartGetActive(c) ==
  /\ cproc[c].at = "getCart"
  /\ IF PendingOrders = {}
     THEN cproc' = [cproc EXCEPT ![c] = [@ EXCEPT !.at = "create"]]
     ELSE \E i \in PendingOrders :
            cproc' = [cproc EXCEPT ![c] =
                        [@ EXCEPT !.at = "update", !.cart = <<orders[i]>>]]
  /\ UNCHANGED <<orders, turnVars, parseVars, regVars, storeVars, extVars>>

\* lines 471-502: ordersRepo.create of an empty pending order
CartCreate(c) ==
  /\ cproc[c].at = "create"
  /\ LET order == [orderNumber |-> Len(orders) + 1, status |-> "pending",
                    products |-> <<>>, total |-> 0]
     IN /\ orders' = Append(orders, order)
        /\ cproc' = [cproc EXCEPT ![c] = [@ EXCEPT !.at = "update", !.cart = <<order>>]]
  /\ UNCHANGED <<turnVars, parseVars, regVars, storeVars, extVars>>

\* lines 504-563 and OrdersRepo.updateProducts: merge into the copy read
\* before, then $set products and the recomputed total on that order
CartUpdate(c) ==
  /\ cproc[c].at = "update"
  /\ LET me == cproc[c]
         merged == MergeLine(me.cart[1].products, me.productId, me.quantity, me.price)
         n == me.cart[1].orderNumber
     IN \/ /\ orders' = [orders EXCEPT ![n] =
                            [@ EXCEPT !.products = merged, !.total = LineTotal(merged)]]
           /\ cproc' = [cproc EXCEPT ![c] = [@ EXCEPT !.at = "done", !.result = "success"]]
        \/ /\ UNCHANGED orders
           /\ cproc' = [cproc EXCEPT ![c] = [@ EXCEPT !.at = "done", !.result = "store error"]]
  /\ UNCHANGED <<turnVars, parseVars, regVars, storeVars, extVars>>

CartStep(c) ==
  \/ CartInvoke(c)
  \/ CartGetProduct(c)
  \/ CartGetActive(c)
  \/ CartCreate(c)
  \/ CartUpdate(c)

InitCart ==
  /\ pc = "cart"
  /\ Quiet
  /\ ParseQuiet
  /\ RegQuiet
  /\ orders = <<>>
  /\ cproc = [c \in Callers |-> IdleCall]
  /\ StoreQuiet
  /\ ExtQuiet

NextCart == \E c \in Callers : CartStep(c)

SpecCart == InitCart /\ [][NextCart]_vars

(***************************************************************************)
(* The conversations collection with its creation timestamps               *)
(***************************************************************************)
Reverse(q) == [i \in 1..Len(q) |-> q[Len(q) + 1 - i]]

\* the orders .sort({ createdAt: -1 }) may return: the documents by falling
\* createdAt, documents of one createdAt in any order
SortedByCreatedAtDesc(docs) ==
  LET k == Len(docs)
      perms == {f \in [1..k -> 1..k] : \A i, j \in 1..k : i # j => f[i] # f[j]}
  IN {[i \in 1..k |-> docs[f[i]]] :
        f \in {g \in perms :
                 \A i \in 1..k, j \in 1..k :
                    i < j => docs[g[i]].createdAt >= docs[g[j]].createdAt}}

\* ConversationsRepo.getLastMessages: sort, limit, toArray, reverse
getLastMessagesByCreatedAt(docs, limit) ==
  {Reverse(SubSeq(sorted, 1, Min({limit, Len(docs)}))) :
     sorted \in SortedByCreatedAtDesc(docs)}

\* ConversationsRepo.saveMessage: createdAt: new Date(), insertOne
StoreSave ==
  /\ pc = "store"
  /\ Len(sdocs) < MaxDocs
  /\ sdocs' = Append(sdocs, [id |-> Len(sdocs) + 1, createdAt |-> sclock])
  /\ sread' = <<>>
  /\ UNCHANGED <<sclock, turnVars, parseVars, regVars, cartVars, extVars>>

\* a millisecond passes
StoreTick ==
  /\ pc = "store"
  /\ sclock < MaxDocs
  /\ sclock' = sclock + 1
  /\ UNCHANGED <<sdocs, sread, turnVars, parseVars, regVars, cartVars, extVars>>

\* a caller reads the last messages with some limit
StoreRead ==
  /\ pc = "store"
  /\ sdocs # <<>>
  /\ \E limit \in 1..MaxDocs :
       \E result \in getLastMessagesByCreatedAt(sdocs, limit) :
          sread' = <<[limit |-> limit, result |-> result]>>
  /\ UNCHANGED <<sdocs, sclock, turnVars, parseVars, regVars, cartVars, extVars>>

InitStore ==
  /\ pc = "store"
  /\ Quiet
  /\ ParseQuiet
  /\ RegQuiet
  /\ CartQuiet
  /\ StoreQuiet
  /\ ExtQuiet

NextStore ==
  \/ StoreSave
  \/ StoreTick
  \/ StoreRead

SpecStore == InitStore /\ [][NextStore]_vars

(***************************************************************************)
(* A custom tool call, from its arguments to the HTTP exchange             *)
(***************************************************************************)
base == <<turnVars, parseVars, regVars, cartVars, storeVars>>
notReq == <<base, ctxVars, raceVars, clientVars, usageVars>>

ArgKeys == {"a", "b", "c"}
Placeholder(key) == CASE key = "a" -> "{a}" [] key = "b" -> "{b}" [] key = "c" -> "{c}"
ValueOf(key) == CASE key = "a" -> "=a" [] key = "b" -> "=b" [] key = "c" -> "=c"
PathTokens == {"/s", "{a}", "{b}"}
Paths == SeqsUpTo(PathTokens, MaxPath)
Methods == {"unset", "GET", "POST", "PUT", "DELETE"}
Credentials == {"none", "valid", "undecryptable"}
Statuses == {200, 404, 500}

\* path.replace(`{key}`, String(value)): the first occurrence only
ReplaceFirst(path, key) ==
  LET ps == {i \in 1..Len(path) : path[i] = Placeholder(key)}
  IN IF ps = {} THEN path ELSE [path EXCEPT ![Min(ps)] = ValueOf(key)]

\* the loop over Object.entries(args), lines 329-331
RECURSIVE ReplaceAll(_, _)
ReplaceAll(path, keys) ==
  IF keys = {} THEN path
  ELSE LET key == CHOOSE x \in keys : TRUE
       IN ReplaceAll(ReplaceFirst(path, key), keys \ {key})

\* customTool.path.includes(`{key}`)
PathIncludes(path, key) == \E i \in 1..Len(path) : path[i] = Placeholder(key)

\* executeCustomTool lines 324-369: url, method, query parameters and body;
\* an empty path is no path, and then the url ends in the tool's name
BuildRequest(tool, args) ==
  LET method == IF tool.method = "unset" THEN "POST" ELSE tool.method
  IN [url |-> IF tool.path # <<>> THEN ReplaceAll(tool.path, args) ELSE <<"/name">>,
      method |-> method,
      query |-> IF method = "GET"
                THEN {key \in args : ~PathIncludes(tool.path, key)}
                ELSE {},
      body |-> IF method = "GET" THEN <<>> ELSE <<args>>,
      apiKeyEncrypted |-> tool.apiKeyEncrypted]

\* executeCustomTool up to its call of externalApiService.fetch
RequestBuild ==
  /\ pc = "request"
  /\ qreq = <<>>
  /\ qreq' = <<BuildRequest(qin[1].tool, qin[1].args)>>
  /\ UNCHANGED <<qin, qout, notReq>>

\* ExternalApiService.fetch lines 28-36: the bearer header is set when the
\* credential decrypts; a decryption error is logged and the call goes on
Authorization(apiKeyEncrypted) == apiKeyEncrypted = "valid"

\* ExternalApiService.fetch lines 21-54; status 0 is a transport that throws
Fetch ==
  /\ pc = "request"
  /\ qreq # <<>> /\ qout = <<>>
  /\ \E st \in Statuses \cup {0} :
       qout' = <<[sent |-> TRUE,
                  authorization |-> Authorization(qreq[1].apiKeyEncrypted),
                  status |-> st,
                  outcome |-> IF st = 200 THEN "returned" ELSE "raised"]>>
  /\ UNCHANGED <<qin, qreq, notReq>>

InitRequest ==
  /\ pc = "request"
  /\ Quiet /\ ParseQuiet /\ RegQuiet /\ CartQuiet /\ StoreQuiet
  /\ CtxQuiet /\ RaceQuiet /\ ClientQuiet /\ UsageQuiet
  /\ qin \in {<<[tool |-> t, args |-> a]>> :
                t \in [path : Paths, method : Methods, apiKeyEncrypted : Credentials],
                a \in SUBSET ArgKeys}
  /\ qreq = <<>> /\ qout = <<>>

NextRequest ==
  \/ RequestBuild
  \/ Fetch

SpecRequest == InitRequest /\ [][NextRequest]_vars

(***************************************************************************)
(* PromptBuilder.extractContext as a fold over the history                 *)
(***************************************************************************)
notCtx == <<base, reqVars, raceVars, clientVars, usageVars>>

\* the product lists a stored search_product action can carry
ProductLists == {[i \in 1..n |-> i] : n \in {0, 1, 2, MaxProducts}}

\* a stored action: pid is payload.productId || payload.id (0: neither),
\* products is <<>> or <<payload.products>>
CtxAction(type, pid, products) == [type |-> type, pid |-> pid, products |-> products]

CtxActions ==
  {CtxAction(t, i, <<>>) : t \in {"show_product", "add_to_cart"}, i \in {0, 1, 7}}
  \cup {CtxAction("search_product", 0, <<>>)}
  \cup {CtxAction("search_product", 0, <<l>>) : l \in ProductLists}
  \cup {CtxAction("get_order", 0, <<>>), CtxAction(Null, 0, <<>>)}

\* a message: action is <<>> or <<action>>
CtxMessages == {[action |-> <<>>]} \cup {[action |-> <<a>>] : a \in CtxActions}
Histories == SeqsUpTo(CtxMessages, MaxHist)

EmptyContext == [lastAction |-> <<>>, lastSearchResults |-> <<>>, mentionedProducts |-> <<>>]

\* lines 216-221: push the ids of the products not yet mentioned
RECURSIVE PushNew(_, _)
PushNew(mentioned, products) ==
  IF products = <<>> THEN mentioned
  ELSE LET id == Head(products)
       IN PushNew(IF \E i \in 1..Len(mentioned) : mentioned[i] = id
                  THEN mentioned ELSE Append(mentioned, id),
                  Tail(products))

Mentioned(ctx) == IF ctx.mentionedProducts = <<>> THEN <<>> ELSE ctx.mentionedProducts[1]

\* the body of the loop over lastMessages, lines 198-241
ContextStep(ctx, msg) ==
  IF msg.action = <<>> THEN ctx
  ELSE LET a == msg.action[1]
           c1 == IF a.type \in {"show_product", "add_to_cart"}
                 THEN [ctx EXCEPT !.mentionedProducts =
                         <<IF a.pid # 0 THEN Append(Mentioned(ctx), a.pid)
                           ELSE Mentioned(ctx)>>]
                 ELSE ctx
           c2 == IF a.type = "search_product" /\ a.products # <<>>
                 THEN [c1 EXCEPT !.lastSearchResults = a.products,
                                 !.mentionedProducts =
                                    <<PushNew(Mentioned(c1), a.products[1])>>]
                 ELSE c1
       IN [c2 EXCEPT !.lastAction = <<a>>]

\* PromptBuilder.extractContext: the fields the loop fills
RECURSIVE extractContext(_)
extractContext(history) ==
  IF history = <<>> THEN EmptyContext
  ELSE ContextStep(extractContext(SubSeq(history, 1, Len(history) - 1)),
                   history[Len(history)])

\* lines 245-250: the products the context summary lists
SummaryProducts(ctx) ==
  IF ctx.lastSearchResults = <<>> THEN <<>>
  ELSE SubSeq(ctx.lastSearchResults[1], 1, Min({SummaryCap, Len(ctx.lastSearchResults[1])}))

ExtractContext ==
  /\ pc = "context"
  /\ xctx = <<>>
  /\ xctx' = <<extractContext(xhist[1])>>
  /\ UNCHANGED <<xhist, notCtx>>

InitContext ==
  /\ pc = "context"
  /\ Quiet /\ ParseQuiet /\ RegQuiet /\ CartQuiet /\ StoreQuiet
  /\ ReqQuiet /\ RaceQuiet /\ ClientQuiet /\ UsageQuiet
  /\ xhist \in {<<h>> : h \in Histories}
  /\ xctx = <<>>

NextContext == ExtractContext

SpecContext == InitContext /\ [][NextContext]_vars

(***************************************************************************)
(* Two processMessage calls on one conversation, cut at their store calls  *)
(***************************************************************************)
notRace == <<base, reqVars, ctxVars, clientVars, usageVars>>

Turns == {1, 2}
IdleTurn == [at |-> "idle", hist |-> <<>>, outcome |-> "none"]

\* processMessage is called; the config load (lines 74-81) succeeds
RaceInvoke(t) ==
  /\ tproc[t].at = "idle"
  /\ tproc' = [tproc EXCEPT ![t] = [@ EXCEPT !.at = "history"]]
  /\ UNCHANGED <<tmsgs, notRace>>

\* a history read that waits until no other turn of the conversation runs
RaceLoadHistoryLocked(t) ==
  /\ tproc[t].at = "history"
  /\ \A u \in Turns \ {t} : tproc[u].at \in {"idle", "history", "done"}
  /\ tproc' = [tproc EXCEPT ![t] =
                 [@ EXCEPT !.at = "think", !.hist = getLastMessages(tmsgs, HistoryLimit)]]
  /\ UNCHANGED <<tmsgs, notRace>>

\* lines 84-89: getLastMessages(tenantId, userId, conversationId, 4)
RaceLoadHistory(t) ==
  /\ tproc[t].at = "history"
  /\ tproc' = [tproc EXCEPT ![t] =
                 [@ EXCEPT !.at = "think", !.hist = getLastMessages(tmsgs, HistoryLimit)]]
  /\ UNCHANGED <<tmsgs, notRace>>

\* lines 92-211: prompt, provider and tools; a provider failure is rethrown
RaceAnswer(t) ==
  /\ tproc[t].at = "think"
  /\ \/ tproc' = [tproc EXCEPT ![t] = [@ EXCEPT !.at = "saveUser"]]
     \/ tproc' = [tproc EXCEPT ![t] = [@ EXCEPT !.at = "done", !.outcome = "raised"]]
  /\ UNCHANGED <<tmsgs, notRace>>

\* saveConversation lines 835-843; a throw ends saveConversation
RaceSaveUser(t) ==
  /\ tproc[t].at = "saveUser"
  /\ \/ /\ tmsgs' = Append(tmsgs, [turn |-> t, role |-> "user"])
        /\ tproc' = [tproc EXCEPT ![t] = [@ EXCEPT !.at = "saveAssistant"]]
     \/ /\ UNCHANGED tmsgs
        /\ tproc' = [tproc EXCEPT ![t] = [@ EXCEPT !.at = "done", !.outcome = "returned"]]
  /\ UNCHANGED notRace

\* saveConversation lines 846-864, then the return of processMessage
RaceSaveAssistant(t) ==
  /\ tproc[t].at = "saveAssistant"
  /\ \/ tmsgs' = Append(tmsgs, [turn |-> t, role |-> "assistant"])
     \/ UNCHANGED tmsgs
  /\ tproc' = [tproc EXCEPT ![t] = [@ EXCEPT !.at = "done", !.outcome = "returned"]]
  /\ UNCHANGED notRace

RaceStep(t) ==
  \/ RaceInvoke(t)
  \/ RaceLoadHistory(t)
  \/ RaceAnswer(t)
  \/ RaceSaveUser(t)
  \/ RaceSaveAssistant(t)

InitRace ==
  /\ pc = "race"
  /\ Quiet /\ ParseQuiet /\ RegQuiet /\ CartQuiet /\ StoreQuiet
  /\ ReqQuiet /\ CtxQuiet /\ ClientQuiet /\ UsageQuiet
  /\ tproc = [t \in Turns |-> IdleTurn]
  /\ tmsgs = <<>>

NextRace == \E t \in Turns : RaceStep(t)

SpecRace == InitRace /\ [][NextRace]_vars

(***************************************************************************)
(* LLMRouter: the client caches                                            *)
(***************************************************************************)
notClient == <<base, reqVars, ctxVars, raceVars, usageVars>>

Vendors == {"openai", "gemini", "groq"}
ApiKeys == {"k1", "k2"}

\* Map.has(apiKey)
CacheHas(cache, key) == \E e \in cache : e.key = key

\* Map.get(apiKey)
CacheGet(cache, key) == (CHOOSE e \in cache : e.key = key).client

\* a cache that keeps the latest credential only
CacheSetLatestOnly(cache, key, client) == {[key |-> key, client |-> client]}

\* Map.set(apiKey, client)
CacheSet(cache, key, client) ==
  {e \in cache : e.key # key} \cup {[key |-> key, client |-> client]}

\* generate lines 76-102 up to getOpenAIClient / getGeminiClient /
\* getGroqClient (lines 45-70): has, then new and set, then get
Generate(vendor, key) ==
  /\ pc = "clients"
  /\ LET n == IF luse = <<>> THEN 0 ELSE luse[1].n
         fresh == Len(lmade) + 1
         cache == IF CacheHas(lclients[vendor], key) THEN lclients[vendor]
                  ELSE CacheSet(lclients[vendor], key, fresh)
     IN /\ n < MaxGenerate
        /\ lclients' = [lclients EXCEPT ![vendor] = cache]
        /\ lmade' = IF CacheHas(lclients[vendor], key) THEN lmade
                    ELSE Append(lmade, [vendor |-> vendor, key |-> key, client |-> fresh])
        /\ luse' = <<[vendor |-> vendor, key |-> key,
                      client |-> CacheGet(cache, key), n |-> n + 1]>>
  /\ UNCHANGED notClient

InitClients ==
  /\ pc = "clients"
  /\ Quiet /\ ParseQuiet /\ RegQuiet /\ CartQuiet /\ StoreQuiet
  /\ ReqQuiet /\ CtxQuiet /\ RaceQuiet /\ UsageQuiet
  /\ lclients = [v \in Vendors |-> {}]
  /\ lmade = <<>>
  /\ luse = <<>>

NextClients == \E v \in Vendors, key \in ApiKeys : Generate(v, key)

SpecClients == InitClients /\ [][NextClients]_vars

(***************************************************************************)
(* Usage control of one (tenant, agent): usageMiddleware admits a chat     *)
(* request, chatHandler runs the turn and then incrementUsage reads the    *)
(* plan and writes it back.  The clock counts months.                      *)
(***************************************************************************)
MaxRequests == 2
MaxLimit == 2
MaxClock == 2
MaxSuccess == 3
RenewalPeriod == 1
FirstRenewal == 1

notUsage == <<base, reqVars, ctxVars, raceVars, clientVars>>

Requests == 1..MaxRequests
Plans == {[monthlyLimit |-> l, usedThisMonth |-> u, renewsAt |-> FirstRenewal] :
            l \in 1..MaxLimit, u \in 0..MaxLimit}
Waiting == [at |-> "idle", seen |-> <<>>]

checkUsageLimit(plan) ==
  [allowed |-> plan.usedThisMonth < plan.monthlyLimit,
   used |-> plan.usedThisMonth,
   limit |-> plan.monthlyLimit,
   remaining |-> IF plan.monthlyLimit - plan.usedThisMonth > 0
                 THEN plan.monthlyLimit - plan.usedThisMonth ELSE 0]

\* The plan incrementUsage writes back, from the plan it read and the clock
\* it read right after.
incrementUsage(plan, now, amount) ==
  IF plan.renewsAt < now
  THEN [plan EXCEPT !.usedThisMonth = amount, !.renewsAt = now + RenewalPeriod]
  ELSE [plan EXCEPT !.usedThisMonth = plan.usedThisMonth + amount]

usageMiddleware(r) ==
  /\ pc = "usage"
  /\ ureq[r].at = "idle"
  /\ ureq' = [ureq EXCEPT ![r].at = IF checkUsageLimit(uplan[1]).allowed
                                    THEN "admitted" ELSE "rejected"]
  /\ UNCHANGED <<uplan, unow, udone>>
  /\ UNCHANGED notUsage

ChatTurnReturns(r) ==
  /\ pc = "usage"
  /\ ureq[r].at = "admitted"
  /\ udone < MaxSuccess
  /\ ureq' = [ureq EXCEPT ![r].at = "turned"]
  /\ udone' = udone + 1
  /\ UNCHANGED <<uplan, unow>>
  /\ UNCHANGED notUsage

ChatTurnRaises(r) ==
  /\ pc = "usage"
  /\ ureq[r].at = "admitted"
  /\ ureq' = [ureq EXCEPT ![r].at = "failed"]
  /\ UNCHANGED <<uplan, unow, udone>>
  /\ UNCHANGED notUsage

IncrementRead(r) ==
  /\ pc = "usage"
  /\ ureq[r].at = "turned"
  /\ ureq' = [ureq EXCEPT ![r] = [at |-> "read",
                                  seen |-> <<incrementUsage(uplan[1], unow, 1)>>]]
  /\ UNCHANGED <<uplan, unow, udone>>
  /\ UNCHANGED notUsage

IncrementWrite(r) ==
  /\ pc = "usage"
  /\ ureq[r].at = "read"
  /\ uplan' = ureq[r].seen
  /\ ureq' = [ureq EXCEPT ![r] = [at |-> "done", seen |-> <<>>]]
  /\ UNCHANGED <<unow, udone>>
  /\ UNCHANGED notUsage

\* The response is sent; the next request of the same (tenant, agent) arrives.
Respond(r) ==
  /\ pc = "usage"
  /\ ureq[r].at \in {"rejected", "failed", "done"}
  /\ ureq' = [ureq EXCEPT ![r] = Waiting]
  /\ UNCHANGED <<uplan, unow, udone>>
  /\ UNCHANGED notUsage

MonthPasses ==
  /\ pc = "usage"
  /\ unow < MaxClock
  /\ unow' = unow + 1
  /\ UNCHANGED <<uplan, ureq, udone>>
  /\ UNCHANGED notUsage

InitUsage ==
  /\ pc = "usage"
  /\ Quiet /\ ParseQuiet /\ RegQuiet /\ CartQuiet /\ StoreQuiet
  /\ ReqQuiet /\ CtxQuiet /\ RaceQuiet /\ ClientQuiet
  /\ \E plan \in Plans :
       /\ plan.usedThisMonth <= plan.monthlyLimit
       /\ uplan = <<plan>>
       /\ udone = plan.usedThisMonth
  /\ unow = 0
  /\ ureq = [r \in Requests |-> Waiting]

NextUsage ==
  \/ \E r \in Requests : usageMiddleware(r)
  \/ \E r \in Requests : ChatTurnReturns(r)
  \/ \E r \in Requests : ChatTurnRaises(r)
  \/ \E r \in Requests : IncrementRead(r)
  \/ \E r \in Requests : IncrementWrite(r)
  \/ \E r \in Requests : Respond(r)
  \/ MonthPasses

SpecUsage == InitUsage /\ [][NextUsage]_vars

\* Every request that can take a step takes it, requests keep arriving and
\* time passes.
SpecUsageFair ==
  /\ InitUsage /\ [][NextUsage]_vars
  /\ \A r \in Requests :
       /\ WF_vars(usageMiddleware(r))
       /\ WF_vars(ChatTurnReturns(r) \/ ChatTurnRaises(r))
       /\ WF_vars(IncrementRead(r))
       /\ WF_vars(IncrementWrite(r))
       /\ WF_vars(Respond(r))
  /\ WF_vars(MonthPasses)

(***************************************************************************)
(* Properties                                                              *)
(***************************************************************************)
TurnOver == pc = "done"
ToolCallsRequested == llm # <<>> /\ llm[1].toolCalls # <<>>
RequestedNames == [i \in 1..Len(llm[1].toolCalls) |-> llm[1].toolCalls[i].name]

\* C1: when the configuration store returns no AgentConfig, processMessage
\* raises and the turn reads no history, calls no provider, executes no tool
\* and appends no conversation message.
C1_ConfigNotFoundIsFatal ==
  (pc \notin {"idle", "load", "parse", "parsed"} /\ cfg = <<>>) =>
     /\ pc = "done" /\ outcome = "raised"
     /\ histReads = 0
     /\ provCalls = <<>>
     /\ executed = <<>>
     /\ appended = <<>>
     /\ final = <<>>

C1_Witness ==
  /\ pc = "done" /\ cfg = <<>> /\ outcome = "raised"
  /\ turn = 2 /\ Len(msgs) = 2

\* C2: processMessage raises only when the configuration is absent or a
\* provider call fails; every other collaborator failure of a turn (history
\* read, tool, unparseable reply, message append) ends in a returned response.
C2_RaisesOnlyOnConfigOrProvider ==
  outcome = "raised" => raisedBy \in {"config", "provider"}

\* C3: a failed provider call (think, narration after tool calls, narration
\* after an inline custom-tool action) is fatal for the turn: processMessage
\* raises, the provider is not called again, and no message is appended.
C3_ProviderFailureIsFatal ==
  \A i \in 1..Len(provCalls) :
     ~provCalls[i].ok =>
        /\ i = Len(provCalls)
        /\ pc = "done" /\ outcome = "raised"
        /\ appended = <<>>

\* a text holds no "{" that is followed by a "}"
NoJsonObject(text) ==
  ~\E i, j \in 1..Len(text) : i < j /\ text[i] = "{" /\ text[j] = "}"

\* the span from the first "{" to the last "}" is not a JSON object
MalformedJson(text) ==
  /\ ~NoJsonObject(text)
  /\ \E i, j, k \in 1..Len(text) :
        /\ i < k /\ k < j
        /\ text[i] = "{" /\ \A h \in 1..(i - 1) : text[h] # "{"
        /\ text[j] = "}" /\ \A h \in (j + 1)..Len(text) : text[h] # "}"
        /\ text[k] \in {"{", "}", "t"}

\* a JSON object that has none of message, audio_description, action
JsonWithoutFields(text) ==
  /\ ~NoJsonObject(text)
  /\ ~MalformedJson(text)
  /\ \A k \in 1..Len(text) : text[k] \notin ({"M", "Me", "D"} \cup ActionTokens)

\* C4: for a reply with no JSON object, a malformed JSON object or a JSON
\* object without the expected fields, parseLLMResponse does not raise: the
\* raw text becomes message, audio_description is generated from it and the
\* action is {type: null, payload: {}}.
C4_ParseFallback ==
  (pc = "parsed" /\ (NoJsonObject(content) \/ MalformedJson(content)
                       \/ JsonWithoutFields(content))) =>
     /\ ~presult[1].raised
     /\ presult[1].message = [kind |-> "raw", text |-> content]
     /\ presult[1].audio_description.of = [kind |-> "raw", text |-> content]
     /\ presult[1].audio_description.suffix = Null
     /\ presult[1].action = [type |-> Null, payload |-> {}]

C4_Witness ==
  /\ pc = "parsed"
  /\ content = <<"{", "t", "}">>
  /\ MalformedJson(content)
  /\ presult[1].message = [kind |-> "raw", text |-> content]

\* C5: every AgentResponse returned by processMessage satisfies
\* action.type == null implies action.payload == {}.
C5_NullActionEmptyPayload ==
  (outcome = "returned" /\ final[1].action.type = Null) =>
     final[1].action.payload = {}

AskedUser ==
  \/ \E i \in 1..Len(toolResults) : toolResults[i].result.needsUserInput
  \/ (inlineRes # <<>> /\ inlineRes[1].needsUserInput)

\* C6: whenever a tool executed in the turn returns needsUserInput = true
\* (through the tool-call channel or an inline action), no provider call is
\* made after that result and the response carries the tool's question with
\* action.type = null.
C6_AskShortCircuits ==
  /\ \A i \in 1..Len(provCalls) : ~provCalls[i].afterAsk
  /\ (outcome = "returned" /\ AskedUser) =>
        /\ final[1].message.kind = "question"
        /\ final[1].action.type = Null

\* C7: when the first reply requests tool calls t1..tn, every ti is executed
\* exactly once and in request order, also after an earlier one failed or its
\* executor threw; each failed result reaches the narration call as an error
\* block; no tool failure makes the turn raise.
C7_AllToolCallsRun ==
  ToolCallsRequested =>
     /\ pc = "tools" => executed = SubSeq(RequestedNames, 1, tcIdx - 1)
     /\ pc # "tools" =>
          /\ executed = RequestedNames
          /\ Len(toolResults) = Len(RequestedNames)
     /\ \A i \in 1..Len(provCalls) :
          provCalls[i].stage = "narrate" =>
             /\ Len(provCalls[i].blocks) = Len(RequestedNames)
             /\ \A k \in 1..Len(RequestedNames) :
                  /\ provCalls[i].blocks[k].tool = RequestedNames[k]
                  /\ (provCalls[i].blocks[k].block = "error")
                       <=> ~toolResults[k].result.success
     /\ TurnOver =>
          /\ Len(provCalls) = 2
          /\ outcome = "returned" \/ ~provCalls[Len(provCalls)].ok

C7_Witness ==
  /\ TurnOver /\ outcome = "returned"
  /\ Len(toolResults) = 3
  /\ toolResults[1].result.error = "store error"
  /\ toolResults[3].result.success
  /\ executed = RequestedNames

EnabledCustomNames(c) ==
  {c.custom[i].name : i \in {k \in 1..Len(c.custom) : c.custom[k].enabled}}

UnknownAction ==
  /\ parsed # <<>>
  /\ parsed[1].action.type \notin
        {Null, "search_product", "add_to_cart", "show_product", "get_order"}
  /\ parsed[1].action.type \notin EnabledCustomNames(cfg[1])

\* C8: when the inline reply names an action.type that is none of the four
\* core actions and not the name of an enabled custom tool, no tool is
\* executed and the returned message, audio_description and action are
\* exactly those parsed from the reply.
C8_UnknownActionUnchanged ==
  (UnknownAction /\ pc # "action") =>
     /\ executed = <<>>
     /\ provCalls = <<[stage |-> "think",
                       tools |-> Len(getToolDefinitions(cfg[1])) > 0,
                       blocks |-> <<>>, ok |-> TRUE, afterAsk |-> FALSE]>>
     /\ final = <<[message |-> parsed[1].message,
                   audio_description |-> parsed[1].audio_description,
                   action |-> parsed[1].action]>>

C8_Witness ==
  /\ TurnOver /\ outcome = "returned"
  /\ UnknownAction
  /\ parsed[1].action.type = "legacy"
  /\ cfg[1].mode = "hybrid"

\* C9: in every turn that reaches the persist step the user message is
\* appended before the assistant message, and a failed append or upsert does
\* not make processMessage raise: it returns the response it had built.
C9_PersistOrderAndSwallow ==
  /\ appended \in {<<>>, <<"user">>, <<"user", "assistant">>}
  /\ (pc \in {"saveUser", "saveAssistant", "upsert"}) => final # <<>>
  /\ (TurnOver /\ final # <<>>) => (outcome = "returned" /\ raisedBy = "none")

C9_Witness ==
  /\ TurnOver /\ outcome = "returned"
  /\ appended = <<"user">>
  /\ final # <<>>

RolesOfTurn(t) ==
  SelectSeq([i \in 1..Len(msgs) |-> IF msgs[i].turn = t THEN msgs[i].role ELSE "other"],
            LAMBDA r : r # "other")

\* C10: after any sequence of turns each turn has contributed either exactly
\* one (user, assistant) pair or no message at all, also when persistence
\* fails part-way.
C10_PairsOnly ==
  TurnOver => \A t \in 1..turn : RolesOfTurn(t) \in {<<>>, <<"user", "assistant">>}


(***************************************************************************)
(* Properties of the tool registry                                         *)
(***************************************************************************)
Advertised == pc = "advertised"
Origins(defs) == {defs[i].origin : i \in 1..Len(defs)}
DeclaredAndEnabled(c) ==
  \E i \in 1..Len(c.custom) : c.custom[i].enabled /\ c.custom[i].baseUrl

\* C11: for a configuration whose tools.mode is 'default' or unset,
\* getToolDefinitions returns no definition of a custom tool, whatever custom
\* tools are declared and enabled: every definition it returns is a core one.
C11_DefaultModeHidesCustomTools ==
  (Advertised /\ rcfg[1].mode \in {"unset", "default"})
    => \A i \in 1..Len(rdefs[1]) :
         rdefs[1][i].origin = "core" /\ rdefs[1][i].name \in CoreTools

C11_Witness ==
  /\ Advertised
  /\ rcfg[1].mode = "default"
  /\ DeclaredAndEnabled(rcfg[1])
  /\ Len(rcfg[1].custom) = MaxCustom
  /\ rcfg[1].getOrder
  /\ Len(rdefs[1]) > 0

\* the capability switch a core definition hangs on: search_product and
\* show_product on tools.searchProduct.enabled, add_to_cart on
\* tools.addToCart.enabled, get_order on tools.getOrder.enabled, rag_query
\* on a knowledge source of kind 'rag'
CapabilityFlag(name, c) ==
  CASE name \in {"search_product", "show_product"} -> c.searchProduct
    [] name = "add_to_cart" -> c.addToCart
    [] name = "get_order" -> c.getOrder
    [] name = "rag_query" -> c.rag
    [] OTHER -> FALSE

\* C12: for a configuration whose tools.mode is 'custom', getToolDefinitions
\* returns no core definition, whatever core flags and knowledge sources are
\* enabled; in every other mode a core definition is returned only when its
\* capability flag is enabled.
C12_CustomModeHidesCoreTools ==
  Advertised =>
    /\ rcfg[1].mode = "custom" => "core" \notin Origins(rdefs[1])
    /\ \A i \in 1..Len(rdefs[1]) :
         rdefs[1][i].origin = "core"
           => /\ rcfg[1].mode \in {"unset", "default", "hybrid"}
              /\ CapabilityFlag(rdefs[1][i].name, rcfg[1])

C12_Witness ==
  /\ Advertised
  /\ rcfg[1].mode = "custom"
  /\ rcfg[1].searchProduct /\ rcfg[1].addToCart /\ rcfg[1].getOrder /\ rcfg[1].rag
  /\ Origins(rdefs[1]) = {"custom"}

Executed == pc = "executed"
DeclaresEnabled(name, c) ==
  \E i \in 1..Len(c.custom) : c.custom[i].name = name /\ c.custom[i].enabled
AdvertisedCustomNames(c) ==
  {getToolDefinitions(c)[i].name :
     i \in {j \in 1..Len(getToolDefinitions(c)) :
              getToolDefinitions(c)[j].origin = "custom"}}

\* C13: executeTool runs the enabled custom tool of exactly that name when
\* the configuration declares one, and then no core executor; otherwise the
\* core executor registered under the name; otherwise it returns the failed
\* result 'Tool not found'.  Every custom tool that getToolDefinitions
\* advertises for a configuration is resolved as a custom tool.
C13_ResolutionOrder ==
  Executed =>
    /\ DeclaresEnabled(rcall[1].name, rcfg[1]) => rres[1].via = "custom"
    /\ (~DeclaresEnabled(rcall[1].name, rcfg[1]) /\ rcall[1].name \in CoreTools)
         => rres[1].via = "core"
    /\ (~DeclaresEnabled(rcall[1].name, rcfg[1]) /\ rcall[1].name \notin CoreTools)
         => (rres[1].via = "none" /\ ~rres[1].success
             /\ rres[1].error = "Tool not found")
    /\ rcall[1].name \in AdvertisedCustomNames(rcfg[1]) => rres[1].via = "custom"

ResolvedCustom == findCustomTool(rcall[1].name, rcfg[1])

\* C14: executeTool never raises: whatever the name, the arguments and the
\* failure of a store or of the HTTP transport, it returns a result, and a
\* result that is not a success carries an error text; for a custom tool
\* without baseUrl the result is a failure and no HTTP call was made.
C14_ExecuteToolNeverRaises ==
  Executed =>
    /\ rres[1].via # "thrown"
    /\ ~rres[1].success => rres[1].error # "none"
    /\ (ResolvedCustom # <<>> /\ ~ResolvedCustom[1].baseUrl)
         => (~rres[1].success /\ rres[1].io = <<>>)

C14_Witness ==
  /\ Executed
  /\ rcall[1] = Call("search_product", {"query#"})
  /\ ResolvedCustom = <<>>
  /\ ~rres[1].success
  /\ rres[1].error = "query.trim is not a function"

OrderKeyRank(k) ==
  CASE k = "orderNumber" -> 1 [] k = "orderId" -> 2 [] k = "email" -> 3
    [] k = "phone" -> 4

\* C15: get_order called with none of orderNumber, orderId, email, phone
\* asks the user (needsUserInput with a question) and makes no order-store
\* lookup; a lookup that finds no order asks the user too; with several
\* identifiers the lookup uses orderNumber, else orderId, else email, else
\* phone.
C15_GetOrderAsksOrLooksUp ==
  (Executed /\ rcall[1].name = "get_order" /\ rres[1].via = "core") =>
    LET ids == rcall[1].arguments \cap OrderKeys
        r == rres[1]
    IN /\ ids = {} => (r.needsUserInput /\ r.question # "none" /\ ~r.success
                        /\ r.io = <<>>)
       /\ ids # {} =>
            /\ Len(r.io) = 2
            /\ r.io[2] \in ids
            /\ \A k \in ids : OrderKeyRank(r.io[2]) <= OrderKeyRank(k)
            /\ r.io[1] = IF r.io[2] \in {"orderNumber", "orderId"}
                         THEN "orders.getById" ELSE "orders.getByUser"
       /\ r.error = "Order not found"
            => (r.needsUserInput /\ r.question # "none" /\ ~r.success)

C15_Witness ==
  /\ Executed
  /\ rcall[1] = Call("get_order", {"orderId", "email", "phone"})
  /\ rres[1] = AskUser("notfound", "Order not found", <<"orders.getById", "orderId">>)

(***************************************************************************)
(* Properties of the cart                                                  *)
(***************************************************************************)
AllCallsDone == \A c \in Callers : cproc[c].at = "done"
OneAfterTheOther == \A c \in Callers : cproc[c].alone
RECURSIVE SumQuantity(_, _)
SumQuantity(S, id) ==
  IF S = {} THEN 0
  ELSE LET c == CHOOSE x \in S : TRUE
       IN (IF cproc[c].productId = id THEN cproc[c].quantity ELSE 0)
          + SumQuantity(S \ {c}, id)
LinesOf(order, id) ==
  {i \in 1..Len(order.products) : order.products[i].productId = id}

\* C16: when add_to_cart calls of one (tenant, user) run one after the other
\* and succeed, in whatever order, the cart has exactly one line item for
\* each product added, whose qty is the sum of the quantities added (q1 + q2
\* for two calls on one product); and at every moment the stored total of an
\* order equals the sum of valid_price x qty over its line items.
C16_CartMergeAndTotal ==
  /\ \A i \in 1..Len(orders) : orders[i].total = LineTotal(orders[i].products)
  /\ (AllCallsDone /\ OneAfterTheOther
       /\ \A c \in Callers : cproc[c].result = "success")
      => /\ Len(orders) = 1
         /\ \A c \in Callers :
              LET id == cproc[c].productId
                  ls == LinesOf(orders[1], id)
              IN /\ Cardinality(ls) = 1
                 /\ \A i \in ls : orders[1].products[i].qty = SumQuantity(Callers, id)

C16_Witness ==
  /\ AllCallsDone /\ OneAfterTheOther
  /\ \A c \in Callers : cproc[c].result = "success" /\ cproc[c].productId = "p1"
  /\ cproc[1].quantity = 1 /\ cproc[2].quantity = 2
  /\ Len(orders) = 1
  /\ Len(orders[1].products) = 1
  /\ orders[1].products[1].qty >= 3
  /\ orders[1].total > 0

\* C17: whatever the interleaving of the add_to_cart calls of one (tenant,
\* userIdentifier), the order store holds at most one pending order for it.
C17_AtMostOnePendingOrder == Cardinality(PendingOrders) <= 1

(***************************************************************************)
(* Properties of the conversation store                                    *)
(***************************************************************************)
LastAppended(n) == SubSeq(sdocs, Len(sdocs) - n + 1, Len(sdocs))

\* C18: after messages m1..mk were appended in that order, getLastMessages
\* with limit N returns the last min(N, k) of them in the order they were
\* appended, also when consecutive appends got the same creation timestamp.
C18_LastMessagesInAppendOrder ==
  sread # <<>>
    => sread[1].result = LastAppended(Min({sread[1].limit, Len(sdocs)}))

(***************************************************************************)
(* Properties of a turn, continued                                         *)
(***************************************************************************)
\* C19: whenever add_to_cart is executed in a turn whose history holds a
\* non-empty lastSearchResults, the arguments handed to the tool carry a
\* productId (the one given, or else that of the first product found
\* before), on the inline path and on the tool-call path alike.
C19_ProductIdFilledOnBothPaths ==
  \A i \in 1..Len(executed) :
     (executed[i] = "add_to_cart" /\ lastSearchResults(hist) = "some")
       => "productId" \in execArgs[i]

\* C20: the provider is called at most twice in a turn; when the first
\* reply requests tool calls it is called exactly once more, after every
\* requested tool has run, without a tool schema, and no tool is executed
\* after that second call.
C20_OneNarrationRound ==
  /\ Len(provCalls) <= 2
  /\ (ToolCallsRequested /\ pc \notin {"tools", "narrate"})
       => /\ Len(provCalls) = 2
          /\ provCalls[2].stage = "narrate"
          /\ ~provCalls[2].tools
          /\ Len(provCalls[2].blocks) = Len(llm[1].toolCalls)
          /\ executed = RequestedNames
          /\ inlineRes = <<>>
  /\ (ToolCallsRequested /\ pc \in {"tools", "narrate"}) => Len(provCalls) = 1

C20_Witness ==
  /\ TurnOver /\ outcome = "returned"
  /\ ToolCallsRequested
  /\ Len(llm[1].toolCalls) = 3
  /\ Len(provCalls) = 2
  /\ provCalls[2].ok
  /\ Len(executed) = 3
  /\ final[1].action.type = "show_product"

\* C21: in every returned response meta.toolsUsed lists, in execution order,
\* the name of every tool executed in the turn, on the tool-call path and on
\* the inline path alike, and is absent only when no tool was executed.
C21_ToolsUsedListsEveryTool ==
  (TurnOver /\ outcome = "returned")
    => metaToolsUsed(toolsUsed) = (IF executed = <<>> THEN <<>> ELSE <<executed>>)

(***************************************************************************)
(* Properties of a custom tool call                                        *)
(***************************************************************************)
Consumed(tool, args) == {key \in args : PathIncludes(tool.path, key)}

\* C22: for a custom tool call every {key} placeholder of the path is
\* replaced by the argument of that name; with GET the arguments no
\* placeholder consumed are the query parameters and no body is sent; with
\* any other method exactly those arguments form the body; the method is
\* POST when the tool declares none.
C22_RequestFromArguments ==
  qreq # <<>> =>
    LET tool == qin[1].tool
        args == qin[1].args
        left == args \ Consumed(tool, args)
        r == qreq[1]
    IN /\ \A key \in args : \A i \in 1..Len(r.url) : r.url[i] # Placeholder(key)
       /\ tool.method = "unset" => r.method = "POST"
       /\ r.method = "GET" => (r.query = left /\ r.body = <<>>)
       /\ r.method # "GET" => r.body = <<left>>

\* C23: fetch never sends a request without the bearer header when an
\* encrypted credential is declared for the call, and raises whenever the
\* response status is not 2xx.
C23_BearerAndStatus ==
  qout # <<>> =>
    /\ (qreq[1].apiKeyEncrypted # "none" /\ qout[1].sent) => qout[1].authorization
    /\ (qout[1].sent /\ qout[1].status # 200) => qout[1].outcome = "raised"

(***************************************************************************)
(* Properties of the extracted context                                     *)
(***************************************************************************)
WithAction(h) == {i \in 1..Len(h) : h[i].action # <<>>}
WithProducts(h) ==
  {i \in WithAction(h) :
     h[i].action[1].type = "search_product" /\ h[i].action[1].products # <<>>}
ReferencedIds(h) ==
  {h[i].action[1].pid :
     i \in {j \in WithAction(h) :
              h[j].action[1].type \in {"show_product", "add_to_cart"}
              /\ h[j].action[1].pid # 0}}
  \cup UNION {{h[i].action[1].products[1][n] :
                 n \in 1..Len(h[i].action[1].products[1])} : i \in WithProducts(h)}

\* C24: extractContext returns as lastAction the action of the last message
\* that carries one, as lastSearchResults the products of the last
\* search_product action, at most 5 of them, and as mentionedProducts every
\* product id a show_product, add_to_cart or search_product action refers
\* to; the result is a function of the history.
C24_ContextIsAFoldOfHistory ==
  xctx # <<>> =>
    LET h == xhist[1]
        ctx == xctx[1]
    IN /\ ctx = extractContext(h)
       /\ ctx.lastAction =
            (IF WithAction(h) = {} THEN <<>> ELSE h[Max(WithAction(h))].action)
       /\ ctx.lastSearchResults =
            (IF WithProducts(h) = {} THEN <<>>
             ELSE h[Max(WithProducts(h))].action[1].products)
       /\ ctx.lastSearchResults # <<>> => Len(ctx.lastSearchResults[1]) <= SummaryCap
       /\ \A id \in ReferencedIds(h) :
            \E i \in 1..Len(Mentioned(ctx)) : Mentioned(ctx)[i] = id

(***************************************************************************)
(* Properties of concurrent turns                                          *)
(***************************************************************************)
\* C25: processMessage holds no per-conversation lock: a turn's history
\* read and its appends can always go ahead, wherever the other turn of the
\* same conversation stands; so both turns can read the same history before
\* either appends, and the stored order can be user1, user2, assistant1,
\* assistant2.
C25_NoConversationLock ==
  \A t \in Turns :
     /\ tproc[t].at = "history" => ENABLED RaceLoadHistory(t)
     /\ tproc[t].at = "saveUser" => ENABLED RaceSaveUser(t)
     /\ tproc[t].at = "saveAssistant" => ENABLED RaceSaveAssistant(t)

C25_Witness ==
  /\ \A t \in Turns : tproc[t].at = "done" /\ tproc[t].hist = <<>>
  /\ tmsgs = <<[turn |-> 1, role |-> "user"], [turn |-> 2, role |-> "user"],
               [turn |-> 1, role |-> "assistant"], [turn |-> 2, role |-> "assistant"]>>

(***************************************************************************)
(* Properties of the client caches                                         *)
(***************************************************************************)
MadeFor(vendor, key) ==
  {i \in 1..Len(lmade) : lmade[i].vendor = vendor /\ lmade[i].key = key}

\* C26: over any sequence of generate calls at most one client is
\* constructed per vendor and credential; a call with a credential used
\* before gets the client constructed for it, and no call replaces or
\* evicts the client of another credential.
C26_OneClientPerCredential ==
  /\ \A v \in Vendors, key \in ApiKeys : Cardinality(MadeFor(v, key)) <= 1
  /\ \A i \in 1..Len(lmade) :
       [key |-> lmade[i].key, client |-> lmade[i].client] \in lclients[lmade[i].vendor]
  /\ luse # <<>> =>
       \E i \in MadeFor(luse[1].vendor, luse[1].key) : lmade[i].client = luse[1].client

C26_Witness ==
  /\ luse # <<>>
  /\ luse[1].n = MaxGenerate
  /\ Len(lmade) = 3
  /\ luse[1].client = 1
  /\ Cardinality(lclients[luse[1].vendor]) = 2

(***************************************************************************)
(* Properties of a turn: what runs and what is left behind                 *)
(***************************************************************************)
AdvertisedNames(c) == {getToolDefinitions(c)[i].name : i \in 1..Len(getToolDefinitions(c))}

\* C27: every tool whose executor makes its store or HTTP call during a
\* turn, after a tool call of the model or after an inline action of its
\* reply, is a tool getToolDefinitions advertised for the turn's
\* configuration.
C27_OnlyAdvertisedToolsRun ==
  /\ \A i \in 1..Len(toolResults) :
       toolResults[i].result.io # <<>>
         => toolResults[i].tool \in AdvertisedNames(cfg[1])
  /\ (inlineRes # <<>> /\ inlineRes[1].io # <<>>)
       => executed[Len(executed)] \in AdvertisedNames(cfg[1])

StoreWrites == {"orders.create", "orders.updateProducts"}
WroteOrders(r) == r.success /\ \E i \in 1..Len(r.io) : r.io[i] \in StoreWrites

\* C28: if processMessage raises, the turn has modified no store: it
\* appended no conversation message and created or updated no cart or
\* order, also when the narration provider call fails after an add_to_cart
\* tool call succeeded.
C28_RaiseLeavesStoresUntouched ==
  outcome = "raised" =>
    /\ appended = <<>>
    /\ \A i \in 1..Len(toolResults) : ~WroteOrders(toolResults[i].result)
    /\ inlineRes # <<>> => ~WroteOrders(inlineRes[1])

(***************************************************************************)
(* Properties of usage control                                            *)
(***************************************************************************)
InFirstPeriod == unow <= FirstRenewal /\ uplan[1].renewsAt = FirstRenewal
Counting == \E r \in Requests : ureq[r].at \in {"turned", "read"}
LimitReached == uplan[1].usedThisMonth >= uplan[1].monthlyLimit
RenewalDue == uplan[1].renewsAt < unow
NobodyInFlight == \A r \in Requests : ureq[r].at \in {"idle", "rejected"}

\* C29: within one billing period usedThisMonth never exceeds monthlyLimit
\* and, once every successful turn has been counted, equals the number of
\* successful turns, also when several requests of the same (tenant, agent)
\* are in flight at once.
C29_UsageWithinLimitAndExact ==
  (pc = "usage" /\ InFirstPeriod) =>
    /\ uplan[1].usedThisMonth <= uplan[1].monthlyLimit
    /\ ~Counting => uplan[1].usedThisMonth = udone

\* C30: a (tenant, agent) that has reached its monthly limit is eventually
\* admitted again: once renewsAt has passed, a chat request passes
\* usageMiddleware, with nothing but chat requests acting.
C30_AdmittedAgainAfterRenewal ==
  (pc = "usage" /\ LimitReached /\ RenewalDue /\ NobodyInFlight)
    ~> (\E r \in Requests : ureq[r].at = "admitted")
====
